---- MODULE Spec2Model ----
(***************************************************************************)
(* The layout engine of the N2 viewer, gen/Layout.js: one Layout is built  *)
(* per re-layout over the same model tree.  The model's nodes keep their   *)
(* draw state (numLeaves, dims, flags) from one Layout to the next.        *)
(*                                                                         *)
(* Numbers.  Pixel widths are integers in units of 1e-3 px, so the literal *)
(* 1e-3 of line 226 is 1.  Heights are in px.  Normalized coordinates and  *)
(* transit coordinates are exact rationals <<n, d>> in lowest terms; the   *)
(* results of a division by zero are NaN (0/0) and Inf (k/0) as in         *)
(* JavaScript.  Floating-point rounding is not modelled.                   *)
(***************************************************************************)
EXTENDS Integers, Sequences, FiniteSets

\* ------------------------------------------------------------------ bounds
MaxNodes == 4
MaxPasses == 3
MaxScaleCalls == 2

\* ------------------------------------------------- configuration (dims.size)
minColumnWidth == 2
rightTextMargin == 1
parentNodeWidth == 3
font == 11
maxNodes == 2
Precollapse_minimumNodes == 3
Precollapse_threshold == 0
Precollapse_depthLimit == 1
HeightChoices == {3, 600}
NarrowText == 1
WideText == 6

\* ---------------------------------------------------------------- numbers
RECURSIVE GCD(_, _)
GCD(a, b) == IF b = 0 THEN a ELSE GCD(b, a % b)

NaN == <<0, 0>>
Inf == <<1, 0>>
\* n / d for integers n >= 0, d >= 0, as JavaScript's division gives it.
Rat(n, d) ==
    IF d = 0 THEN (IF n = 0 THEN NaN ELSE Inf)
    ELSE LET g == GCD(n, d) IN <<n \div g, d \div g>>
Zero == <<0, 1>>
One == <<1, 1>>
IsNaN(r) == r = NaN
IsInf(r) == r = Inf
IsFinite(r) == r[2] # 0
LCM(a, b) == (a \div GCD(a, b)) * b
\* a <= b; every comparison with NaN is false.
Leq(a, b) ==
    IF IsNaN(a) \/ IsNaN(b) THEN FALSE
    ELSE IF IsInf(b) THEN TRUE
    ELSE IF IsInf(a) THEN FALSE
    ELSE LET l == LCM(a[2], b[2]) IN a[1] * (l \div a[2]) <= b[1] * (l \div b[2])
Plus(a, b) ==
    IF IsNaN(a) \/ IsNaN(b) THEN NaN
    ELSE IF IsInf(a) \/ IsInf(b) THEN Inf
    ELSE LET l == LCM(a[2], b[2]) IN Rat(a[1] * (l \div a[2]) + b[1] * (l \div b[2]), l)
\* 1 - a, for a <= 1
OneMinus(a) == IF ~IsFinite(a) THEN NaN ELSE Rat(a[2] - a[1], a[2])
\* k / a for an integer k >= 0
IntOver(k, a) ==
    IF IsNaN(a) THEN NaN
    ELSE IF IsInf(a) THEN Zero
    ELSE Rat(k * a[2], a[1])
\* JavaScript truthiness of a number: 0 and NaN are falsy.
Truthy(a) == ~IsNaN(a) /\ a # Zero
Max(a, b) == IF a >= b THEN a ELSE b

\* The near-zero size given to a node that is not visible (lines 309-310).
Sentinel == <<1, 1000000>>

VARIABLES
    parent,            \* model tree: parent[n] of node n, 0 for the root (node 1)
    autoIvc,           \* the component named '_auto_ivc', 0 if there is none
    textWidth,         \* the rendered width of each node's text
    n2height,          \* size.n2matrix.height = size.partitionTree.height
    hidden, filtered, minimized, manuallyExpanded,   \* node.draw flags
    numLeaves,         \* node.draw.numLeaves
    nameWidthPx,       \* node.draw.nameWidthPx
    dims,              \* node.draw.dims
    zoomedElement, zoomedNodes, visibleNodes,
    visibleNodeCount,  \* -1 stands for undefined
    prevVisibleNodeCount, curVisibleNodeCount,
    greatestDepth, leafWidthsPx, cols,
    treeWidth,         \* size.partitionTree.width
    scales, transitCoords, firstRun,
    transitionAllowed, \* d3.selection.prototype.transitionAllowed
    patched,           \* d3's transition, duration and delay are returnThis
    pc,                \* position in the constructor and _init
    passes,            \* Layouts constructed so far
    scaleCalls         \* updateScaleValues calls on this Layout

modelVars == <<parent, autoIvc, textWidth, n2height>>
flagVars == <<hidden, filtered, minimized, manuallyExpanded>>
drawVars == <<numLeaves, nameWidthPx, dims>>
listVars == <<zoomedNodes, visibleNodes>>
countVars == <<visibleNodeCount, prevVisibleNodeCount, curVisibleNodeCount>>
colVars == <<greatestDepth, leafWidthsPx, cols, treeWidth>>
scaleVars == <<scales, transitCoords, firstRun, scaleCalls>>
d3Vars == <<transitionAllowed, patched>>
vars == <<modelVars, flagVars, drawVars, zoomedElement, listVars, countVars,
          colVars, scaleVars, d3Vars, pc, passes>>

\* ------------------------------------------------------------- model tree
Undefined == -1
Root == 1
NumNodes == Len(parent)
Nodes == 1..NumNodes

RECURSIVE depthOf(_)
depthOf(n) == IF n = Root THEN 1 ELSE 1 + depthOf(parent[n])

maxDepth == LET ds == {depthOf(n) : n \in Nodes} IN CHOOSE d \in ds : \A e \in ds : e <= d

depthCount(d) == Cardinality({n \in Nodes : depthOf(n) = d})

RECURSIVE SeqOfSet(_)
\* The members of a set of node ids in increasing (declaration) order.
SeqOfSet(S) ==
    IF S = {} THEN <<>>
    ELSE LET m == CHOOSE x \in S : \A y \in S : x <= y IN <<m>> \o SeqOfSet(S \ {m})

children(n) == SeqOfSet({c \in Nodes : parent[c] = n})

hasChildren(n) == \E c \in Nodes : parent[c] = n

isInputOrOutput(n) == n # Root /\ ~hasChildren(n)

parentComponent(n) == parent[n]

RECURSIVE Ancestors(_)
\* The proper ancestors of n.
Ancestors(n) == IF n = Root THEN {} ELSE {parent[n]} \cup Ancestors(parent[n])

numDescendants(n) == Cardinality({m \in Nodes : n \in Ancestors(m)})

isVisibleIn(n, hid, fil) == ~(n \in hid \/ n \in fil)
isVisible(n) == isVisibleIn(n, hidden, filtered)
isVisibleLeaf(n) == isVisible(n) /\ (~hasChildren(n) \/ n \in minimized)

\* The ordered trees of k nodes: node 1 is the root and parent[n] < n.
Trees(k) == {p \in [1..k -> 0..(k - 1)] : p[1] = 0 /\ \A n \in 2..k : p[n] \in 1..(n - 1)}

\* ------------------------------------------------------------ constructor
\* The draw state of a model that no Layout has touched yet.
FreshDims == [x |-> Zero, y |-> Zero, width |-> Zero, height |-> Zero]

NoScale == [x |-> [domain |-> <<Zero, One>>, range |-> <<0, 0>>],
            y |-> [domain |-> <<Zero, One>>, range |-> <<0, 0>>]]

Init ==
    /\ \E k \in (MaxNodes - 1)..MaxNodes : parent \in Trees(k)
    /\ autoIvc \in {0} \cup {c \in {2} : \E v \in 1..Len(parent) : parent[v] = c}
    /\ \E w \in 0..Len(parent) :
         textWidth = [n \in 1..Len(parent) |-> IF n = w THEN WideText ELSE NarrowText]
    /\ n2height \in HeightChoices
    /\ hidden = {} /\ filtered = {} /\ minimized = {} /\ manuallyExpanded = {}
    /\ numLeaves = [n \in 1..Len(parent) |-> 0]
    /\ nameWidthPx = [n \in 1..Len(parent) |-> 0]
    /\ dims = [n \in 1..Len(parent) |-> FreshDims]
    /\ zoomedElement = Root
    /\ zoomedNodes = <<>> /\ visibleNodes = <<>>
    /\ visibleNodeCount = Undefined
    /\ prevVisibleNodeCount = 0 /\ curVisibleNodeCount = 0
    /\ greatestDepth = 0
    /\ leafWidthsPx = <<>>
    /\ cols = <<>>
    /\ treeWidth = 0
    /\ scales = [cur |-> NoScale, prev |-> NoScale]
    /\ transitCoords = [cur |-> <<Zero, Zero>>, prev |-> <<Zero, Zero>>]
    /\ firstRun = TRUE
    /\ scaleCalls = 0
    /\ transitionAllowed = TRUE /\ patched = FALSE
    /\ pc = "computeLeaves"
    /\ passes = 1

\* --------------------------------------------------------- _computeLeaves
\* TreeNode.minimizeIfLarge: the size test of the auto-collapse policy.
minimizeIfLarge(min, n) ==
    IF /\ ~(n = Root \/ n \in manuallyExpanded)
       /\ numDescendants(n) > Precollapse_threshold
       /\ depthCount(depthOf(n)) > Precollapse_depthLimit
    THEN min \cup {n}
    ELSE min

\* Lines 191-196: the auto-minimize steps on a node that is neither hidden
\* nor filtered.
autoMinimize(min, n) ==
    IF n = autoIvc /\ n \notin manuallyExpanded THEN min \cup {n}
    ELSE IF NumNodes > Precollapse_minimumNodes THEN minimizeIfLarge(min, n)
    ELSE min

skipsLeaves_hiddenOnly(n) == n \in hidden

\* Line 190: the node counts no leaves and its children are not visited.
skipsLeaves(n) == n \in hidden \/ n \in filtered

sumsChildren_ignoresMinimized(min, n) == hasChildren(n)

\* Line 198: the node's count is the sum over its children.
sumsChildren(min, n) == hasChildren(n) /\ n \notin min

\* Line 205
leafCount == 1

RECURSIVE computeLeaves(_, _), computeLeavesLoop(_, _, _)
\* st = [min, nl]: the minimized set and numLeaves as the recursion changes them.
computeLeaves(st, n) ==
    LET s0 == [st EXCEPT !.nl[n] = 0] IN
    IF skipsLeaves(n) THEN s0
    ELSE LET s1 == [s0 EXCEPT !.min = autoMinimize(@, n)] IN
         IF sumsChildren(s1.min, n)
         THEN computeLeavesLoop(s1, n, children(n))
         ELSE [s1 EXCEPT !.nl[n] = leafCount]

computeLeavesLoop(st, n, kids) ==
    IF kids = <<>> THEN st
    ELSE LET s1 == computeLeaves(st, Head(kids)) IN
         computeLeavesLoop([s1 EXCEPT !.nl[n] = @ + s1.nl[Head(kids)]], n, Tail(kids))

ComputeLeaves ==
    /\ pc = "computeLeaves"
    /\ LET st == computeLeaves([min |-> minimized, nl |-> numLeaves], Root) IN
         /\ minimized' = st.min
         /\ numLeaves' = st.nl
    /\ pc' = "updateTextWidths"
    /\ UNCHANGED <<modelVars, hidden, filtered, manuallyExpanded, nameWidthPx, dims,
                   zoomedElement, listVars, countVars, colVars, scaleVars, d3Vars, passes>>

\* ------------------------------------------------------ _updateTextWidths
\* Line 172
nameWidthOf(n) == textWidth[n] + 2 * rightTextMargin

RECURSIVE updateTextWidths(_, _), updateTextWidthsLoop(_, _)
updateTextWidths(nw, n) ==
    IF n \in hidden THEN nw
    ELSE LET w1 == [nw EXCEPT ![n] = nameWidthOf(n)] IN
         IF hasChildren(n) /\ n \notin minimized
         THEN updateTextWidthsLoop(w1, children(n))
         ELSE w1

updateTextWidthsLoop(nw, kids) ==
    IF kids = <<>> THEN nw
    ELSE updateTextWidthsLoop(updateTextWidths(nw, Head(kids)), Tail(kids))

UpdateTextWidths ==
    /\ pc = "updateTextWidths"
    /\ nameWidthPx' = updateTextWidths(nameWidthPx, zoomedElement)
    /\ pc' = "computeColumnWidths"
    /\ UNCHANGED <<modelVars, flagVars, numLeaves, dims, zoomedElement, listVars,
                   countVars, colVars, scaleVars, d3Vars, passes>>

\* --------------------------------------------------- _computeColumnWidths
\* Line 222, as the pair <<numerator, denominator>> of the row height in px.
rowHeight(n) == Rat(n2height * numLeaves[n], numLeaves[zoomedElement])

\* Line 224: height > size.font
textOpacity(n) == IF ~Leq(rowHeight(n), <<font, 1>>) /\ ~IsNaN(rowHeight(n)) THEN 1 ELSE 0

\* Line 225: height >= 2.0
hasVisibleDetail(n) == Leq(<<2, 1>>, rowHeight(n))

\* Lines 226-227: the width the node asks for
widthOf(n) ==
    IF textOpacity(n) = 1 THEN nameWidthPx[n]
    ELSE IF hasVisibleDetail(n) THEN minColumnWidth
    ELSE 1

\* Line 231: the node widens its own column; lines 237: it is a leaf whose
\* label must fit between its column and the right edge.
isColumnParent(n) == hasChildren(n) /\ n \notin minimized
isColumnLeaf(n) == ~isColumnParent(n) /\ n \notin filtered

RECURSIVE setColumnWidthsFromWidestText(_, _), setColumnWidthsLoop(_, _)
\* st = [gd, cw, lw]: greatestDepth, the columns' widths and leafWidthsPx.
setColumnWidthsFromWidestText(st, n) ==
    IF n \in hidden THEN st
    ELSE LET d == depthOf(n)
             s1 == [st EXCEPT !.gd = Max(@, d)]
         IN IF isColumnParent(n)
            THEN setColumnWidthsLoop([s1 EXCEPT !.cw[d] = Max(@, widthOf(n))], children(n))
            ELSE IF isColumnLeaf(n)
            THEN [s1 EXCEPT !.lw[d] = Max(@, widthOf(n))]
            ELSE s1

setColumnWidthsLoop(st, kids) ==
    IF kids = <<>> THEN st
    ELSE setColumnWidthsLoop(setColumnWidthsFromWidestText(st, Head(kids)), Tail(kids))

RECURSIVE lastColumnWidthFrom(_, _, _, _, _)
\* Lines 255-261: the loop from depth i down to the zoomed element's depth.
lastColumnWidthFrom(cw, lw, i, sum, last) ==
    IF i < depthOf(zoomedElement) THEN last
    ELSE LET sum1 == sum + cw[i] IN
         lastColumnWidthFrom(cw, lw, i - 1, sum1, Max(lw[i] - sum1, last))

\* Lines 263-264: the parent column and the greatest-depth column.
adjustEnds(cw, gd, last) ==
    [[cw EXCEPT ![depthOf(zoomedElement) - 1] = parentNodeWidth] EXCEPT ![gd] = last]

ComputeColumnWidths ==
    /\ pc = "computeColumnWidths"
    /\ LET st0 == [gd |-> 0,
                   cw |-> [d \in 0..maxDepth |-> 0],
                   lw |-> [d \in 0..maxDepth |-> 0]]
           st == setColumnWidthsFromWidestText(st0, zoomedElement)
           last == lastColumnWidthFrom(st.cw, st.lw, maxDepth, 0, 0)
           cw == adjustEnds(st.cw, st.gd, last)
       IN /\ greatestDepth' = st.gd
          /\ leafWidthsPx' = st.lw
          /\ cols' = [d \in 0..maxDepth |-> [width |-> cw[d], location |-> 0]]
    /\ pc' = "setColumnLocations"
    /\ UNCHANGED <<modelVars, flagVars, drawVars, zoomedElement, listVars, countVars,
                   treeWidth, scaleVars, d3Vars, passes>>

\* ---------------------------------------------------- _setColumnLocations
RECURSIVE locationOf_fromColumn0(_, _)
locationOf_fromColumn0(c, d) ==
    IF d <= 0 THEN 0 ELSE locationOf_fromColumn0(c, d - 1) + c[d - 1].width

RECURSIVE locationOf(_, _)
\* Lines 271-274: the value of obj.width when the loop reaches depth d.
locationOf(c, d) == IF d <= 1 THEN 0 ELSE locationOf(c, d - 1) + c[d - 1].width

setColumnLocations(c) ==
    [d \in DOMAIN c |-> IF d >= 1 THEN [c[d] EXCEPT !.location = locationOf(c, d)] ELSE c[d]]

SetColumnLocations ==
    /\ pc = "setColumnLocations"
    /\ cols' = setColumnLocations(cols)
    /\ treeWidth' = locationOf(cols, maxDepth + 1)
    /\ pc' = "computeNormalizedPositions"
    /\ UNCHANGED <<modelVars, flagVars, drawVars, zoomedElement, listVars, countVars,
                   greatestDepth, leafWidthsPx, scaleVars, d3Vars, passes>>

\* --------------------------------------------- _computeNormalizedPositions
\* Lines 292-293: the node joins zoomedNodes.
entersZoomed(n, isChildOfZoomed, emp) == emp = 0 /\ isChildOfZoomed /\ isVisible(n)

becomesRow_underMinimized(n, isChildOfZoomed, emp) ==
    isChildOfZoomed /\ isVisible(n) /\ isVisibleLeaf(n)

\* Line 295: the node is drawn as a row and stands for its whole subtree.
becomesRow(n, isChildOfZoomed, emp) ==
    entersZoomed(n, isChildOfZoomed, emp) /\ isVisibleLeaf(n)

\* Line 296
pushesVisible(n) == n \notin hidden

nodeDims_counterY(d, n, workNode, leafCounter) ==
    LET x == Rat(cols[depthOf(IF isVisible(n) THEN workNode ELSE n)].location, treeWidth)
        workX == IF workNode = n THEN x ELSE d[workNode].x
    IN [x |-> x,
        y |-> Rat(leafCounter, numLeaves[Root]),
        width |-> IF ~isVisible(n) THEN Sentinel
                  ELSE IF hasChildren(n) /\ n \notin minimized /\ n \notin filtered
                  THEN Rat(cols[depthOf(workNode)].width, treeWidth)
                  ELSE OneMinus(workX),
        height |-> IF ~isVisible(n) THEN Sentinel
                   ELSE Rat(numLeaves[workNode], numLeaves[Root])]

\* Lines 306-318: the dims written for node n; d is node.draw.dims of every
\* node as the traversal has left it, workNode the node of line 303.
nodeDims(d, n, workNode, leafCounter) ==
    IF ~isVisible(n)
    THEN [x |-> Rat(cols[depthOf(parentComponent(n)) + 1].location, treeWidth),
          y |-> d[parentComponent(n)].y,
          width |-> Sentinel,
          height |-> Sentinel]
    ELSE LET x == Rat(cols[depthOf(workNode)].location, treeWidth)
             workX == IF workNode = n THEN x ELSE d[workNode].x
         IN [x |-> x,
             y |-> Rat(leafCounter, numLeaves[Root]),
             width |-> IF hasChildren(n) /\ n \notin minimized /\ n \notin filtered
                       THEN Rat(cols[depthOf(workNode)].width, treeWidth)
                       ELSE OneMinus(workX),
             height |-> Rat(numLeaves[workNode], numLeaves[Root])]

\* Line 322: the recursion goes into this child.
descendsInto(c) == ~isInputOrOutput(c) \/ c \notin minimized

\* Lines 325-327: the leaf counter after a child that was visited.
advance(leafCounter, c, emp) == IF emp = 0 THEN leafCounter + numLeaves[c] ELSE leafCounter

RECURSIVE computeNormalizedPositions(_, _, _, _, _), computeNormalizedPositionsLoop(_, _, _, _, _)
\* st = [zoomedNodes, visibleNodes, dims]; emp is earliestMinimizedParent, 0 for null.
\* node.preserveDims (line 302) keeps a copy of the old dims for the renderer's
\* interpolation; the layout never reads it and it is left out.
computeNormalizedPositions(st, n, leafCounter, isChildOfZoomed0, emp0) ==
    LET isChildOfZoomed == isChildOfZoomed0 \/ n = zoomedElement
        row == becomesRow(n, isChildOfZoomed, emp0)
        emp == IF row THEN n ELSE emp0
        workNode == IF emp # 0 THEN emp ELSE n
        s1 == [zoomedNodes |-> IF entersZoomed(n, isChildOfZoomed, emp0)
                               THEN Append(st.zoomedNodes, n) ELSE st.zoomedNodes,
               visibleNodes |-> IF row /\ pushesVisible(n)
                                THEN Append(st.visibleNodes, n) ELSE st.visibleNodes,
               dims |-> [st.dims EXCEPT ![n] = nodeDims(st.dims, n, workNode, leafCounter)]]
    IN IF hasChildren(n)
       THEN computeNormalizedPositionsLoop(s1, children(n), leafCounter, isChildOfZoomed, emp)
       ELSE s1

computeNormalizedPositionsLoop(st, kids, leafCounter, isChildOfZoomed, emp) ==
    IF kids = <<>> THEN st
    ELSE LET c == Head(kids) IN
         IF descendsInto(c)
         THEN computeNormalizedPositionsLoop(
                  computeNormalizedPositions(st, c, leafCounter, isChildOfZoomed, emp),
                  Tail(kids), advance(leafCounter, c, emp), isChildOfZoomed, emp)
         ELSE computeNormalizedPositionsLoop(st, Tail(kids), leafCounter, isChildOfZoomed, emp)

\* Lines 51-53
ComputeNormalizedPositions ==
    /\ pc = "computeNormalizedPositions"
    /\ LET st == computeNormalizedPositions(
                     [zoomedNodes |-> zoomedNodes, visibleNodes |-> visibleNodes, dims |-> dims],
                     Root, 0, FALSE, 0)
       IN /\ zoomedNodes' = IF zoomedElement # Root
                            THEN Append(st.zoomedNodes, parent[zoomedElement])
                            ELSE st.zoomedNodes
          /\ visibleNodes' = st.visibleNodes
          /\ dims' = st.dims
    /\ pc' = "setTransitionPermission"
    /\ UNCHANGED <<modelVars, flagVars, numLeaves, nameWidthPx, zoomedElement, countVars,
                   colVars, scaleVars, d3Vars, passes>>

\* ------------------------------------------------ setTransitionPermission
\* Line 77: Math.max of the two counts; NaN when the previous one is undefined.
highWaterMark(prev, cur) == IF prev = Undefined THEN NaN ELSE <<Max(prev, cur), 1>>

\* Line 80
tooManyNodes(hwm) == Leq(<<maxNodes, 1>>, hwm)

\* Lines 75-105 on the Layout's counts and d3's selection prototype.
setTransitionPermission ==
    /\ prevVisibleNodeCount' = visibleNodeCount
    /\ visibleNodeCount' = Len(visibleNodes)
    /\ IF tooManyNodes(highWaterMark(visibleNodeCount, Len(visibleNodes)))
       THEN IF ~transitionAllowed
            THEN UNCHANGED d3Vars
            ELSE transitionAllowed' = FALSE /\ patched' = TRUE
       ELSE IF transitionAllowed
            THEN UNCHANGED d3Vars
            ELSE transitionAllowed' = TRUE /\ patched' = FALSE

\* new Scale(size.partitionTree): both instances span the tree as it is sized.
NewScale(w, h) ==
    LET s == [x |-> [domain |-> <<Zero, One>>, range |-> <<0, w>>],
              y |-> [domain |-> <<Zero, One>>, range |-> <<0, h>>]]
    IN [cur |-> s, prev |-> s]

\* new Dimensions({x: 0, y: 0})
NewTransitCoords == [cur |-> <<Zero, Zero>>, prev |-> <<Zero, Zero>>]

\* Lines 55-64: the rest of _init
FinishInit ==
    /\ pc = "setTransitionPermission"
    /\ setTransitionPermission
    /\ scales' = NewScale(treeWidth, n2height)
    /\ transitCoords' = NewTransitCoords
    /\ firstRun' = TRUE
    /\ pc' = "ready"
    /\ UNCHANGED <<modelVars, flagVars, drawVars, zoomedElement, listVars,
                   curVisibleNodeCount, colVars, scaleCalls, passes>>

\* A later call of the public method.
SetTransitionPermission ==
    /\ pc = "ready"
    /\ setTransitionPermission
    /\ UNCHANGED <<modelVars, flagVars, drawVars, zoomedElement, listVars,
                   curVisibleNodeCount, colVars, scaleVars, pc, passes>>

\* ------------------------------------------------------ updateScaleValues
\* Scale.preserve and Dimensions.preserve: the current values become the previous.
preserve(s) == [s EXCEPT !.prev = s.cur]

\* Line 467
preserves == ~firstRun

\* Lines 472-473 and 478: the pixel at which the zoomed element's column starts
leftEdge(elemDims) == IF Truthy(elemDims.x) THEN parentNodeWidth ELSE 0

\* Lines 472-474
newTransitCoords(elemDims) ==
    <<IntOver(treeWidth - leftEdge(elemDims), OneMinus(elemDims.x)),
      IntOver(n2height, elemDims.height)>>

\* Lines 476-482
newScale(elemDims) ==
    [x |-> [domain |-> <<elemDims.x, One>>,
            range |-> <<leftEdge(elemDims), treeWidth>>],
     y |-> [domain |-> <<elemDims.y, Plus(elemDims.y, elemDims.height)>>,
            range |-> <<0, n2height>>]]

UpdateScaleValues ==
    /\ pc = "ready"
    /\ scaleCalls < MaxScaleCalls
    /\ LET t == IF preserves THEN preserve(transitCoords) ELSE transitCoords
           s == IF preserves THEN preserve(scales) ELSE scales
       IN /\ transitCoords' = [t EXCEPT !.cur = newTransitCoords(dims[zoomedElement])]
          /\ scales' = [s EXCEPT !.cur = newScale(dims[zoomedElement])]
    /\ scaleCalls' = scaleCalls + 1
    /\ UNCHANGED <<modelVars, flagVars, drawVars, zoomedElement, listVars, countVars,
                   colVars, firstRun, d3Vars, pc, passes>>

\* ------------------------------------------------------------ constructor
\* What the diagram's user did to the model before the next layout.
Minimize(n) ==
    /\ n \notin minimized
    /\ minimized' = minimized \cup {n}
    /\ manuallyExpanded' = manuallyExpanded \ {n}
    /\ UNCHANGED <<hidden, filtered>>

Expand(n) ==
    /\ n \in minimized
    /\ minimized' = minimized \ {n}
    /\ manuallyExpanded' = manuallyExpanded \cup {n}
    /\ UNCHANGED <<hidden, filtered>>

ToggleHidden(n) ==
    /\ n # Root
    /\ hidden' = IF n \in hidden THEN hidden \ {n} ELSE hidden \cup {n}
    /\ UNCHANGED <<filtered, minimized, manuallyExpanded>>

ToggleFiltered(n) ==
    /\ n # Root
    /\ filtered' = IF n \in filtered THEN filtered \ {n} ELSE filtered \cup {n}
    /\ UNCHANGED <<hidden, minimized, manuallyExpanded>>

\* The model is as the last Layout left it.
NoEdit == UNCHANGED flagVars

\* Lines 25-40: a new Layout over the same model, after at most one change to a
\* node's flags, around any element of the model.
Constructor ==
    /\ pc = "ready"
    /\ passes < MaxPasses
    /\ \/ NoEdit
       \/ \E n \in Nodes :
            Minimize(n) \/ Expand(n) \/ ToggleHidden(n) \/ ToggleFiltered(n)
    /\ zoomedElement' \in Nodes
    /\ <<flagVars, zoomedElement>>' # <<flagVars, zoomedElement>>
    /\ zoomedNodes' = <<>> /\ visibleNodes' = <<>>
    /\ visibleNodeCount' = Undefined
    /\ curVisibleNodeCount' = 0 /\ prevVisibleNodeCount' = 0
    /\ greatestDepth' = 0 /\ leafWidthsPx' = <<>> /\ cols' = <<>>
    /\ scales' = [cur |-> NoScale, prev |-> NoScale]
    /\ transitCoords' = NewTransitCoords
    /\ firstRun' = TRUE
    /\ scaleCalls' = 0
    /\ pc' = "computeLeaves"
    /\ passes' = passes + 1
    /\ UNCHANGED <<modelVars, drawVars, treeWidth, d3Vars>>

Next ==
    \/ ComputeLeaves
    \/ UpdateTextWidths
    \/ ComputeColumnWidths
    \/ SetColumnLocations
    \/ ComputeNormalizedPositions
    \/ FinishInit
    \/ SetTransitionPermission
    \/ UpdateScaleValues
    \/ Constructor

Spec == Init /\ [][Next]_vars

\* ================================================================= claims
RECURSIVE SumOver(_, _)
\* The sum of f over the set S of node ids.
SumOver(f, S) ==
    IF S = {} THEN 0 ELSE LET m == CHOOSE x \in S : TRUE IN f[m] + SumOver(f, S \ {m})

ChildSet(n) == {c \in Nodes : parent[c] = n}

\* The nodes _computeLeaves reaches from the root: every proper ancestor is
\* neither hidden nor filtered nor minimized.
LeavesTraversed(n) ==
    \A a \in Ancestors(n) : a \notin hidden /\ a \notin filtered /\ a \notin minimized

LeavesExpected(n) ==
    IF n \in hidden \/ n \in filtered THEN 0
    ELSE IF hasChildren(n) /\ n \notin minimized THEN SumOver(numLeaves, ChildSet(n))
    ELSE 1

\* C1: when _computeLeaves(root) has returned, every node it traversed has
\* numLeaves = 0 if it is hidden or filtered, the sum of its children's numLeaves
\* if it has children and is not minimized after the auto-minimize steps, and 1
\* otherwise; the nodes below a hidden, filtered or minimized node are not
\* visited: their numLeaves and minimized flag are what they were before.
C1_LeafCounts ==
    [][pc = "computeLeaves" =>
         \A n \in Nodes :
            IF LeavesTraversed(n)'
            THEN numLeaves'[n] = LeavesExpected(n)'
            ELSE /\ numLeaves'[n] = numLeaves[n]
                 /\ (n \in minimized') = (n \in minimized)]_vars

\* A hidden or filtered node with children counts nothing, and the root's count
\* is the sum over that node and its sibling.
C1_Witness ==
    /\ pc = "updateTextWidths"
    /\ \E h \in Nodes : /\ parent[h] = Root /\ hasChildren(h)
                        /\ (h \in hidden \/ h \in filtered)
                        /\ numLeaves[h] = 0
    /\ Cardinality(ChildSet(Root)) = 2
    /\ Root \notin minimized
    /\ numLeaves[Root] = 1

RECURSIVE WidthSum(_, _, _)
\* cols[a].width + ... + cols[b].width
WidthSum(c, a, b) == IF a > b THEN 0 ELSE c[a].width + WidthSum(c, a + 1, b)

\* C2: after _computeColumnWidths and _setColumnLocations, cols[d].location is
\* the sum of the final widths of the columns 1..d-1 for every depth d in
\* 1..maxDepth, every final width is >= 0, the locations do not decrease with
\* the depth, and partitionTree.width is the sum of the widths of 1..maxDepth.
C2_ColumnLocations ==
    pc \in {"computeNormalizedPositions", "setTransitionPermission", "ready"} =>
        /\ \A d \in 1..maxDepth : cols[d].location = WidthSum(cols, 1, d - 1)
        /\ \A d \in 0..maxDepth : cols[d].width >= 0
        /\ \A d \in 1..(maxDepth - 1) : cols[d + 1].location >= cols[d].location
        /\ treeWidth = WidthSum(cols, 1, maxDepth)

\* Zoomed below the root with a leaf label wider than the columns to its left:
\* both overrides of lines 263-264 have acted and the locations strictly grow.
C2_Witness ==
    /\ pc = "computeNormalizedPositions"
    /\ zoomedElement # Root
    /\ maxDepth >= 3
    /\ cols[depthOf(zoomedElement) - 1].width = parentNodeWidth
    /\ cols[greatestDepth].width > 0
    /\ greatestDepth > depthOf(zoomedElement)
    /\ cols[greatestDepth].location > cols[depthOf(zoomedElement)].location

\* The nodes _computeNormalizedPositions reaches from the root, whose dims it
\* writes: no minimized input or output on the path from the root to the node.
PositionsTraversed(n) ==
    \A a \in (Ancestors(n) \cup {n}) \ {Root} : ~(isInputOrOutput(a) /\ a \in minimized)

LaidOut == pc \in {"setTransitionPermission", "ready"}

\* The tolerance of the bounds on the normalized coordinates.
Epsilon == <<1, 1000000>>

InUnitBox(d) ==
    /\ Leq(Zero, d.x) /\ Leq(d.x, One)
    /\ Leq(Zero, d.y) /\ Leq(d.y, One)
    /\ Leq(Plus(d.x, d.width), Plus(One, Epsilon))
    /\ Leq(Plus(d.y, d.height), Plus(One, Epsilon))

\* C3: after a complete layout pass every node whose dims were written has
\* 0 <= x <= 1, 0 <= y <= 1, x + width <= 1 + epsilon and y + height <= 1 +
\* epsilon, whatever the tree, the flags and the zoomed element.
C3_DimsInUnitBox ==
    LaidOut => \A n \in Nodes : PositionsTraversed(n) => InUnitBox(dims[n])

\* The zoomed element and the nodes below it.
InZoomed(n) == n = zoomedElement \/ zoomedElement \in Ancestors(n)

Descendants(n) == {m \in Nodes : n \in Ancestors(m)}

\* The true leaves below n.
DescendantLeaves(n) == {m \in Descendants(n) : ~hasChildren(m)}

Occurrences(seq, n) == Cardinality({i \in 1..Len(seq) : seq[i] = n})

\* A minimized subtree root that is drawn: visible, with children, in the
\* zoomed element's subtree, and below no hidden, filtered or minimized node.
DrawnMinimized(m) ==
    /\ isVisible(m) /\ m \in minimized /\ hasChildren(m)
    /\ InZoomed(m) /\ LeavesTraversed(m)

\* C4 as stated, in the case most favourable to it (the minimized node is drawn):
\* a visible minimized node with N leaves below it is one entry of visibleNodes,
\* none of its descendants is one, and its height is N / root.numLeaves.
C4_Original ==
    LaidOut =>
        \A m \in Nodes : DrawnMinimized(m) =>
            /\ Occurrences(visibleNodes, m) = 1
            /\ \A d \in Descendants(m) : Occurrences(visibleNodes, d) = 0
            /\ dims[m].height = Rat(Cardinality(DescendantLeaves(m)), numLeaves[Root])

\* C4 amended: a visible minimized node with children, in the zoomed element's
\* subtree and below no hidden, filtered or minimized node, is one entry of
\* visibleNodes, none of its descendants is one, its numLeaves is 1 and its
\* height is 1 / root.numLeaves whatever the number of leaves below it.
C4_MinimizedIsOneLeaf ==
    LaidOut =>
        \A m \in Nodes : DrawnMinimized(m) =>
            /\ Occurrences(visibleNodes, m) = 1
            /\ \A d \in Descendants(m) : Occurrences(visibleNodes, d) = 0
            /\ numLeaves[m] = 1
            /\ dims[m].height = Rat(1, numLeaves[Root])

\* A drawn minimized node below the root with two leaves under it.
C4_Witness ==
    /\ LaidOut
    /\ \E m \in Nodes : /\ DrawnMinimized(m)
                        /\ m # Root
                        /\ Cardinality(DescendantLeaves(m)) = 2
                        /\ visibleNodes = <<m>>
                        /\ dims[m].height = One

RECURSIVE PreOrder(_), PreOrderAll(_)
\* The subtree of n in pre-order, children in declaration order.
PreOrder(n) == <<n>> \o PreOrderAll(children(n))
PreOrderAll(kids) == IF kids = <<>> THEN <<>> ELSE PreOrder(Head(kids)) \o PreOrderAll(Tail(kids))

RECURSIVE Select(_, _)
\* The subsequence of seq of the members of S.
Select(seq, S) ==
    IF seq = <<>> THEN <<>>
    ELSE (IF Head(seq) \in S THEN <<Head(seq)>> ELSE <<>>) \o Select(Tail(seq), S)

\* The proper ancestors of n from the zoomed element down.
ZoomedAncestors(n) == {a \in Ancestors(n) : InZoomed(a)}

\* C5 as stated: the rows are the nodes of the zoomed subtree that are visible
\* leaves (true leaves or minimized subtree roots), are not hidden, and have
\* neither a visible leaf nor a minimized node above them in the zoomed subtree.
RowsAsStated ==
    {n \in Nodes : /\ InZoomed(n) /\ isVisibleLeaf(n) /\ n \notin hidden
                   /\ \A a \in ZoomedAncestors(n) : ~isVisibleLeaf(a) /\ a \notin minimized}

RowsDrawn ==
    {n \in Nodes : /\ InZoomed(n) /\ isVisibleLeaf(n) /\ PositionsTraversed(n)
                   /\ \A a \in ZoomedAncestors(n) : ~isVisibleLeaf(a)}

PrevCount == IF prevVisibleNodeCount = Undefined THEN 0 ELSE prevVisibleNodeCount

\* C6: after every call of setTransitionPermission, the first on a new Layout
\* included, animated transitions are suppressed if and only if the larger of
\* the previous and the current visible-node count is strictly greater than
\* N2TransitionDefaults.maxNodes.
C6_SuppressedIffAboveMax ==
    visibleNodeCount # Undefined =>
        (patched <=> Max(PrevCount, visibleNodeCount) > maxNodes)

\* C7: the first updateScaleValues call of a layout leaves the previous mappings
\* and transit coordinates alone, and every later call makes them the current
\* ones of the call before.
C7_PreservesAfterFirstCall ==
    [][scaleCalls' = scaleCalls + 1 =>
          IF scaleCalls = 0
          THEN scales'.prev = scales.prev /\ transitCoords'.prev = transitCoords.prev
          ELSE scales'.prev = scales.cur /\ transitCoords'.prev = transitCoords.cur]_vars

\* C8: after updateScaleValues on a laid-out Layout the x mapping has the domain
\* [zoomedElement.x, 1] and the range [L, treeWidth], with L = 0 when the zoomed
\* element is the model's root and the parent column's width otherwise, and the y
\* mapping has the domain [zoomedElement.y, zoomedElement.y + height] and the
\* range [0, treeHeight]; the code's choice of L, from whether zoomedElement's
\* dims.x is nonzero, is the one by whether the zoomed element is the root, for
\* every tree and every zoomed element.
C8_ScaleValues ==
    (pc = "ready" /\ scaleCalls >= 1) =>
        LET e == dims[zoomedElement]
            L == IF zoomedElement = Root THEN 0 ELSE parentNodeWidth
        IN /\ scales.cur.x.domain = <<e.x, One>>
           /\ scales.cur.x.range = <<L, treeWidth>>
           /\ scales.cur.y.domain = <<e.y, Plus(e.y, e.height)>>
           /\ scales.cur.y.range = <<0, n2height>>

ColumnsSized == pc \in {"setColumnLocations", "computeNormalizedPositions",
                        "setTransitionPermission", "ready"}

\* C9: after _computeColumnWidths the final widths of the columns from a leaf's
\* depth d to the greatest depth add up to at least leafWidthsPx[d], for every
\* depth at which a leaf was recorded, and cols[greatestDepth].width is the
\* least value >= 0 with that property: it is 0 or some leaf fits exactly.
C9_NoLeafClips ==
    ColumnsSized =>
        LET ds == {d \in depthOf(zoomedElement)..maxDepth : leafWidthsPx[d] > 0} IN
        /\ \A d \in ds : WidthSum(cols, d, greatestDepth) >= leafWidthsPx[d]
        /\ \/ cols[greatestDepth].width = 0
           \/ \E d \in ds : WidthSum(cols, d, greatestDepth) = leafWidthsPx[d]

\* C10 as stated: every node that is not visible has the sentinel size, its
\* parent component's y, and the x of its parent component's column.
C10_Original ==
    LaidOut =>
        \A n \in Nodes : ~isVisible(n) =>
            /\ dims[n].width = Sentinel /\ dims[n].height = Sentinel
            /\ dims[n].y = dims[parentComponent(n)].y
            /\ dims[n].x = Rat(cols[depthOf(parentComponent(n))].location, treeWidth)

\* C10 amended: every node that is not visible and that the traversal reaches
\* gets width = height = 1e-6, which is above 0, the y of its parent component,
\* and the normalized location of the column one to the right of its parent
\* component's, cols[parentComponent.depth + 1]; nothing of it comes from the
\* leaf counter.
C10_InvisibleNodeDims ==
    LaidOut =>
        \A n \in Nodes : (~isVisible(n) /\ PositionsTraversed(n)) =>
            /\ dims[n].width = Sentinel /\ dims[n].height = Sentinel
            /\ ~Leq(Sentinel, Zero)
            /\ dims[n].y = dims[parentComponent(n)].y
            /\ dims[n].x = Rat(cols[depthOf(parentComponent(n)) + 1].location, treeWidth)

\* A hidden second child: the leaf counter is 1 when it is reached, its y is its
\* parent's 0, and its x is not the x of its parent's column.
C10_Witness ==
    /\ LaidOut
    /\ \E n \in Nodes : /\ ~isVisible(n) /\ PositionsTraversed(n)
                        /\ \E c \in ChildSet(parent[n]) : c < n /\ numLeaves[c] = 1
                        /\ LeavesTraversed(n)
                        /\ numLeaves[Root] >= 1
                        /\ dims[n].y = Zero
                        /\ dims[n].width = Sentinel
                        /\ Truthy(dims[n].x)
                        /\ dims[n].x # dims[parent[n]].x

RECURSIVE Counter(_)
\* The leaf counter with which the traversal enters n when no node above n
\* became a row: it starts at 0 on the root and goes up by the numLeaves of
\* every earlier sibling the recursion went into (lines 322-327).
Counter(n) ==
    IF n = Root THEN 0
    ELSE Counter(parent[n])
         + SumOver(numLeaves, {s \in ChildSet(parent[n]) : s < n /\ descendsInto(s)})

\* The counter at child c of P when it starts at P's and goes up by the
\* numLeaves of each child before c, in declaration order.
TilingCounter(P, c) == Counter(P) + SumOver(numLeaves, {s \in ChildSet(P) : s < c})

\* A visible, expanded node with children and no minimized node above it.
ExpandedParent(P) ==
    /\ isVisible(P) /\ hasChildren(P) /\ P \notin minimized
    /\ Ancestors(P) \cap minimized = {}

\* A visible minimized node with children and no minimized node above it.
TopMinimized(m) ==
    /\ isVisible(m) /\ hasChildren(m) /\ m \in minimized
    /\ Ancestors(m) \cap minimized = {}

\* C11: after a layout pass the rows of the children of every visible, expanded
\* node P with no minimized ancestor tile P's row: with a leaf counter that
\* starts at P's and advances by each child's numLeaves in declaration order,
\* each visible child's dims.y is counter / root.numLeaves and its dims.height
\* its numLeaves / root.numLeaves, and the counter after the last child is P's
\* counter plus P's numLeaves; and the visible descendants of a minimized node
\* have the minimized node's y and height.
C11_ChildrenTile ==
    LaidOut =>
        /\ \A P \in Nodes : ExpandedParent(P) =>
              /\ \A c \in ChildSet(P) : isVisible(c) =>
                    /\ dims[c].y = Rat(TilingCounter(P, c), numLeaves[Root])
                    /\ dims[c].height = Rat(numLeaves[c], numLeaves[Root])
              /\ SumOver(numLeaves, ChildSet(P)) = numLeaves[P]
        /\ \A m \in Nodes : TopMinimized(m) =>
              \A d \in Descendants(m) : isVisible(d) =>
                    dims[d].y = dims[m].y /\ dims[d].height = dims[m].height

====
